---- MODULE Spec2Model ----
(***************************************************************************)
(* Voice biometric pipeline of daw_backend: the voice endpoints of         *)
(* voice_processing.py, login_with_voice of auth.py, the background        *)
(* augmentation task store_multiple_embeddings and the user store of       *)
(* mongodb_client.py.                                                      *)
(*                                                                         *)
(* Floats are modelled in hundredths (a similarity of 0.85 is 85).         *)
(* An embedding is a vector of two integers; None is the empty tuple.      *)
(* A step of a handler is the code between two await points; a step of     *)
(* the background task (a worker thread) is one access to the file system  *)
(* or to the user store.                                                   *)
(***************************************************************************)
EXTENDS Integers, Sequences, FiniteSets, TLC

\* ------------------------------------------------------------------ bounds
\* Number of requests served in one behaviour.
MaxRequests == 2

Req == 1..MaxRequests

\* ------------------------------------------------------------------ inputs
FileNames == {"a.wav", "b.wav"}

\* What an upload can hold: no bytes, bytes librosa cannot decode, speech
\* shorter than one second, and two speakers' valid clips.
Clips == {"empty", "corrupt", "short", "x", "y"}

\* The same, and a valid recording larger than 15 MB (it stays larger than
\* 15 MB when preprocess_audio rewrites it).
Uploads == Clips \cup {"huge"}

Variants == {"orig", "stretch", "pitch"}

\* What loading the encoder does when it is attempted: VoiceEncoder() and the
\* probe succeed, VoiceEncoder() throws, or the probe throws.
Loads == {"ok", "load_fails", "probe_fails"}

\* ------------------------------------------------------------------ config
RESEMBLYZER_AVAILABLE == TRUE

VOICE_SIMILARITY_THRESHOLD == 85

\* ------------------------------------------------------------------ values
None == <<>>

NoPath == [k |-> "none", f |-> "", n |-> 0]

TempPath(fn) == [k |-> "temp", f |-> fn, n |-> 0]

NamedTemp(fn, r) == [k |-> "named", f |-> fn, n |-> r]

StretchPath(p) == [k |-> "stretch", f |-> p.f, n |-> p.n]

PitchPath(p) == [k |-> "pitch", f |-> p.f, n |-> p.n]

SideSuffixes == {".original.wav", ".preprocessed.wav", ".final.wav"}

Range(s) == {s[i] : i \in DOMAIN s}

\* ------------------------------------------------------------- file system
Exists(f, p) == p \in DOMAIN f

WriteFile(f, p, c) == [q \in (DOMAIN f) \cup {p} |-> IF q = p THEN c ELSE f[q]]

RemoveFile(f, p) == [q \in (DOMAIN f) \ {p} |-> f[q]]

NewFile(r) == [clip |-> "empty", var |-> "orig", by |-> r, cond |-> FALSE]

Decodable(c) == c.clip \in {"short", "x", "y", "huge", "silent", "long", "long10"}

LongEnough(c) == c.clip \in {"x", "y", "huge", "silent", "long", "long10"}

\* os.path.getsize(audio_path) > 15 * 1024 * 1024
TooLarge(c) == c.clip = "huge"

\* ---------------------------------------------------------------- encoder
\* The encoder's output for a conditioned clip.
Embed(clip, var) ==
    CASE clip = "x" /\ var = "orig" -> <<4, 0>>
      [] clip = "x" /\ var = "stretch" -> <<4, 1>>
      [] clip = "x" /\ var = "pitch" -> <<4, -1>>
      [] clip = "y" /\ var = "orig" -> <<0, 4>>
      [] clip = "y" /\ var = "stretch" -> <<1, 4>>
      [] clip = "y" /\ var = "pitch" -> <<-1, 4>>
      [] clip = "long10" -> <<3, 3>>
      [] OTHER -> <<0, 0>>

\* get_voice_encoder: the value returned and the global it leaves.
GetVoiceEncoder(enc, load) ==
    IF ~RESEMBLYZER_AVAILABLE THEN [ret |-> "None", enc |-> enc]
    ELSE IF enc = "None"
         THEN CASE load = "load_fails" -> [ret |-> "None", enc |-> "None"]
                [] load = "probe_fails" -> [ret |-> "None", enc |-> "bad"]
                [] OTHER -> [ret |-> "good", enc |-> "good"]
         ELSE [ret |-> enc, enc |-> enc]

\* ----------------------------------------------------------- conditioning
\* preprocess_audio: the world is [fs, side, enc]; loaded tells whether its
\* librosa.load was run on the file.
PreprocessAudio(w, p) ==
    IF ~Exists(w.fs, p) THEN [ok |-> FALSE, w |-> w, loaded |-> FALSE]
    ELSE IF w.fs[p].clip = "empty" THEN [ok |-> FALSE, w |-> w, loaded |-> FALSE]
    ELSE IF ~Decodable(w.fs[p]) THEN [ok |-> FALSE, w |-> w, loaded |-> TRUE]
    ELSE [ok |-> TRUE, loaded |-> TRUE,
          w |-> [w EXCEPT !.fs = WriteFile(w.fs, p, [w.fs[p] EXCEPT !.cond = TRUE]),
                          !.side = w.side \cup {[p |-> p, s |-> s] : s \in SideSuffixes}]]


\* if duration > 10: audio = y[:int(10 * sr)]; sf.write(audio_path, audio, sr):
\* a clip longer than 10 s is cut and the file is rewritten with the first
\* 10 s, which are what gets embedded.
DurationTruncate(c) == IF c.clip = "long" THEN [c EXCEPT !.clip = "long10"] ELSE c

\* The duration check that skips the embedding of a short clip.
DurationCheck_Off(c) == IF ~Decodable(c) THEN "unloadable" ELSE ""

\* The try block of the format and duration check: the detail of the
\* HTTPException or error raised in it ("": none).
DurationCheck(c) ==
    IF ~Decodable(c) THEN "unloadable"
    ELSE IF ~LongEnough(c) THEN "too_short"
    ELSE ""

\* except Exception around the format and duration check: whatever was raised
\* in the block, the too-short HTTPException included, is raised again as
\* "El archivo de audio no es valido o esta corrupto".
DurationHandler(raised_detail) == IF raised_detail = "" THEN "" ELSE "corrupt"

\* extract_embedding: emb is the value returned (None included), raised the
\* status of the HTTPException that leaves the function (0: none),
\* conditioned whether preprocess_audio ran, loaded whether librosa.load was
\* run on the file, asked whether get_voice_encoder was called, embedded
\* whether embed_utterance was called, noenc whether the encoder could not be
\* obtained, detail the detail of the HTTPException the outer except caught.
ExtractEmbedding(w, p, load) ==
    LET rejected(w0, detail, conditioned, loaded) ==
            [emb |-> None, raised |-> 0, w |-> w0, conditioned |-> conditioned,
             loaded |-> loaded, asked |-> FALSE, embedded |-> FALSE,
             noenc |-> FALSE, detail |-> detail, used |-> ""]
    IN
    IF ~RESEMBLYZER_AVAILABLE
    THEN [emb |-> None, raised |-> 503, w |-> w, conditioned |-> FALSE,
          loaded |-> FALSE, asked |-> FALSE, embedded |-> FALSE, noenc |-> TRUE,
          detail |-> "unavailable", used |-> ""]
    ELSE IF ~Exists(w.fs, p) THEN rejected(w, "missing", FALSE, FALSE)
    ELSE IF w.fs[p].clip = "empty" THEN rejected(w, "empty", FALSE, FALSE)
    ELSE IF TooLarge(w.fs[p]) THEN rejected(w, "too_large", FALSE, FALSE)
    ELSE LET pre == PreprocessAudio(w, p)
             w1 == pre.w
             checked == DurationHandler(DurationCheck(w1.fs[p]))
         IN IF checked # ""
            THEN rejected(w1, checked, TRUE, TRUE)
            ELSE LET g == GetVoiceEncoder(w1.enc, load)
                     w2 == [w1 EXCEPT !.fs[p] = DurationTruncate(@),
                                      !.enc = g.enc]
                 IN IF g.ret = "None"
                    THEN [emb |-> None, raised |-> 0, w |-> w2, conditioned |-> TRUE,
                          loaded |-> TRUE, asked |-> TRUE, embedded |-> FALSE,
                          noenc |-> TRUE, detail |-> "unavailable", used |-> ""]
                    ELSE IF g.ret = "bad"
                    THEN [emb |-> None, raised |-> 0, w |-> w2, conditioned |-> TRUE,
                          loaded |-> TRUE, asked |-> TRUE, embedded |-> TRUE,
                          noenc |-> FALSE, detail |-> "", used |-> w2.fs[p].clip]
                    ELSE [emb |-> Embed(w2.fs[p].clip, w2.fs[p].var), raised |-> 0,
                          w |-> w2, conditioned |-> TRUE, loaded |-> TRUE,
                          asked |-> TRUE, embedded |-> TRUE, noenc |-> FALSE,
                          detail |-> "", used |-> w2.fs[p].clip]

\* ------------------------------------------------------------- similarity
Dot(a, b) == a[1] * b[1] + a[2] * b[2]

MaxOf(S) == CHOOSE m \in S : \A k \in S : k <= m

\* 1 - cosine(a, b) clamped to [0, 1], in hundredths (rounded down).
Cosine100(a, b) ==
    IF Dot(a, b) <= 0 THEN 0
    ELSE LET n == Dot(a, a) * Dot(b, b)
             d == 10000 * Dot(a, b) * Dot(a, b)
         IN CHOOSE s \in 0..100 :
                s * s * n <= d /\ (s = 100 \/ (s + 1) * (s + 1) * n > d)

\* The check for all-zero embeddings left out.
IsZero_Never(a) == FALSE

\* np.all(np.abs(embedding) < 1e-10)
IsZero(a) == a[1] = 0 /\ a[2] = 0

\* compare_voices; <<>> stands for None and for the empty list, which the
\* same test sends to the same return.
compare_voices(e1, e2, threshold) ==
    IF e1 = None \/ e2 = None THEN [similarity |-> 0, match |-> FALSE]
    ELSE IF IsZero(e1) \/ IsZero(e2) THEN [similarity |-> 0, match |-> FALSE]
    ELSE LET s == Cosine100(e1, e2)
         IN [similarity |-> s, match |-> (s >= threshold)]


\* The loop replaced by a comparison with the last stored embedding alone.
BestMatch_Last(input, gallery, t) == compare_voices(input, gallery[Len(gallery)], t)

\* GalleryMatcher loop of verify_voice and login_with_voice: best_similarity
\* starts at 0 and is replaced only by a strictly greater similarity.
RECURSIVE MatchLoop(_, _, _, _, _, _)
MatchLoop(input, gallery, t, i, best, is_match) ==
    IF i > Len(gallery) THEN [similarity |-> best, match |-> is_match]
    ELSE LET result == compare_voices(input, gallery[i], t)
         IN IF result.similarity > best
            THEN MatchLoop(input, gallery, t, i + 1, result.similarity, result.match)
            ELSE MatchLoop(input, gallery, t, i + 1, best, is_match)

BestMatch(input, gallery, t) == MatchLoop(input, gallery, t, 1, 0, FALSE)

\* ------------------------------------------------------------- user store
NoUser == [exists |-> FALSE, has_gallery |-> FALSE, voice_embeddings |-> <<>>,
           voice_url |-> 0, voice_embedding |-> None]

\* MongoDBClient.get_user_voice_data: None (found = FALSE) when the user is
\* missing or the store raised.
get_user_voice_data(d, store_ok) ==
    IF ~store_ok \/ ~d.exists THEN [NoUser EXCEPT !.exists = FALSE]
    ELSE d

\* MongoDBClient.get_user_by_email: None when missing or when the store raised.
get_user_by_email(d, store_ok) ==
    IF ~store_ok \/ ~d.exists THEN [NoUser EXCEPT !.exists = FALSE]
    ELSE d

\* MongoDBClient.update_user_voice_gallery: $set of the whole list; True only
\* when the document was modified.
update_user_voice_gallery(d, embs, url, store_ok) ==
    IF ~store_ok \/ ~d.exists THEN [ret |-> FALSE, db |-> d]
    ELSE LET n == [d EXCEPT !.has_gallery = TRUE, !.voice_embeddings = embs,
                            !.voice_url = IF url # 0 THEN url ELSE @]
         IN [ret |-> (n # d), db |-> n]

\* ------------------------------------------------------------------ state
VARIABLES
    fs,             \* path -> content of the files that exist
    side,           \* the side files preprocess_audio has written
    voice_encoder,  \* the global encoder: "None", "good" or "bad" (probe threw)
    threshold,      \* the configured VOICE_SIMILARITY_THRESHOLD, in hundredths
    db,             \* the user's record in the store
    req,            \* the requests
    task,           \* the background task each register_voice scheduled
    loader          \* the thread started at import: its position, and the
                    \* number of VoiceEncoder() constructions so far

vars == <<fs, side, voice_encoder, threshold, db, req, task, loader>>

Handlers == {"extract", "compare", "register", "verify", "analyze", "login",
             "authreg"}

IdleReq == [h |-> "idle", pc |-> "idle", fn |-> "a.wav", clip |-> "empty",
            fn2 |-> "a.wav", clip2 |-> "empty", bg |-> FALSE,
            path |-> NoPath, path2 |-> NoPath, emb |-> None, url |-> 0,
            status |-> 0, raised |-> 0, err |-> "", similarity |-> 0,
            match |-> FALSE, token |-> FALSE,
            created |-> {}, left |-> {}, extracted |-> FALSE,
            conditioned |-> FALSE, noenc |-> FALSE, lookup |-> "na",
            seed |-> "na", dropped |-> {}, foreign |-> FALSE,
            decoded |-> FALSE, asked |-> FALSE, embedded |-> FALSE, detail |-> "",
            emb2 |-> None, against |-> <<>>, handed |-> "na",
            audio |-> [kind |-> "na", dur |-> 0], faults |-> <<>>, used |-> ""]

NoTask == [st |-> "none", path |-> NoPath, url |-> 0, y |-> NewFile(0),
           temp_files |-> {}, embs |-> <<>>, combined |-> <<>>, ret |-> "na",
           wrote |-> {}, overlap |-> {}, foreign |-> FALSE, tried |-> {},
           prior |-> <<>>]

\* The loader thread before it has done anything (it sleeps 10 s first).
NoLoader == [pc |-> "sleep", built |-> 0]

World == [fs |-> fs, side |-> side, enc |-> voice_encoder]

\* The user as /auth/register creates it: no voice data yet.  (create_user
\* stores voice_embedding or voice_embeddings only when register computed
\* them, and its voice_embedding.tolist() on the list extract_embedding
\* returns raises before create_user is reached.)
NewUser == [NoUser EXCEPT !.exists = TRUE]

Init ==
    /\ fs = <<>>
    /\ side = {}
    /\ voice_encoder = "None"
    /\ threshold = VOICE_SIMILARITY_THRESHOLD
    /\ db = NewUser
    /\ req = [r \in Req |-> IdleReq]
    /\ task = [r \in Req |-> NoTask]
    /\ loader = NoLoader

\* Request q or its background task is still running.
Active(q) == req[q].pc \notin {"idle", "done"} \/ task[q].st \notin {"none", "done"}

\* The file at path p was written by another request that is still running.
Touches(f, p, r) == Exists(f, p) /\ f[p].by # r /\ Active(f[p].by)

\* temp_file.write(content): the handle opened before the await writes the
\* upload; an unlinked path stays absent.
WriteUpload(f, p, r, clip) ==
    IF Exists(f, p)
    THEN WriteFile(f, p, [clip |-> clip, var |-> "orig", by |-> r, cond |-> FALSE])
    ELSE f

\* The response: what the caller gets, and which created files are left.
Respond(rec, f, status, raised, err) ==
    [rec EXCEPT !.pc = "done", !.status = status, !.raised = raised, !.err = err,
                !.left = {p \in rec.created : Exists(f, p)}]

\* ----------------------------------------------------------------- arrival
\* A request arrives and is routed to its handler.
Arrive(r, h, fn, clip, bg, fn2, clip2) ==
    /\ req[r].h = "idle"
    /\ \A q \in Req : q < r => req[q].h # "idle"
    /\ req' = [req EXCEPT ![r] = [IdleReq EXCEPT !.h = h,
                  !.pc = IF h \in {"login", "authreg"} THEN h ELSE "open",
                  !.fn = fn, !.clip = clip, !.bg = bg, !.fn2 = fn2, !.clip2 = clip2]]
    /\ UNCHANGED <<fs, side, voice_encoder, threshold, loader, db, task>>

\* Requests served one after the other: the next one arrives once the
\* previous response is out (its background task may still be running).
Start(r, h, fn, clip, bg, fn2, clip2) ==
    /\ \A q \in Req : q < r => req[q].pc = "done"
    /\ Arrive(r, h, fn, clip, bg, fn2, clip2)

\* open(temp_file_path, "wb") followed by await voice_recording.read()
OpenUpload(r) ==
    /\ req[r].pc = "open"
    /\ LET p == TempPath(req[r].fn)
       IN /\ fs' = WriteFile(fs, p, NewFile(r))
          /\ req' = [req EXCEPT ![r].pc = "body", ![r].path = p,
                                ![r].created = @ \cup {p},
                                ![r].foreign = @ \/ Touches(fs, p, r)]
    /\ UNCHANGED <<side, voice_encoder, threshold, loader, db, task>>

\* extract_voice_embedding after the await
ExtractBody(r) ==
    /\ req[r].pc = "body" /\ req[r].h = "extract"
    /\ \E load \in Loads :
       LET p == req[r].path
           w0 == [World EXCEPT !.fs = WriteUpload(fs, p, r, req[r].clip)]
           e == ExtractEmbedding(w0, p, load)
           removable == Exists(e.w.fs, p)
           f1 == IF e.raised = 0 /\ removable THEN RemoveFile(e.w.fs, p) ELSE e.w.fs
           rec == [req[r] EXCEPT !.emb = e.emb, !.extracted = TRUE,
                                 !.conditioned = e.conditioned, !.noenc = e.noenc,
                                 !.decoded = e.loaded, !.asked = e.asked,
                                 !.embedded = e.embedded, !.detail = e.detail, !.used = e.used,
                                 !.foreign = @ \/ Touches(fs, p, r)]
       IN /\ fs' = f1
          /\ side' = e.w.side
          /\ voice_encoder' = e.w.enc
          /\ req' = [req EXCEPT ![r] =
                IF e.raised = 0 /\ removable
                THEN Respond(rec, f1, 200, 0, "")
                ELSE Respond(rec, f1, 500, e.raised, "exception")]
    /\ UNCHANGED <<threshold, loader, db, task>>


\* The user has no voice_embeddings and no voice_embedding to compare with.
NoVoiceRecord(ud) ==
    ~ud.exists \/ (ud.voice_embeddings = <<>> /\ ud.voice_embedding = None)

\* verify_voice after the await
VerifyBody(r) ==
    /\ req[r].pc = "body" /\ req[r].h = "verify"
    /\ \E store_ok \in BOOLEAN, load \in Loads :
       LET p == req[r].path
           w0 == [World EXCEPT !.fs = WriteUpload(fs, p, r, req[r].clip)]
           pre == PreprocessAudio(w0, p)
           e == ExtractEmbedding(pre.w, p, load)
           ud == get_user_voice_data(db, store_ok)
           removable == Exists(e.w.fs, p)
           removed == IF removable THEN RemoveFile(e.w.fs, p) ELSE e.w.fs
           best == IF ud.voice_embeddings = <<>>
                   THEN compare_voices(e.emb, ud.voice_embedding, threshold)
                   ELSE BestMatch(e.emb, ud.voice_embeddings, threshold)
           rec == [req[r] EXCEPT !.emb = e.emb, !.extracted = TRUE,
                                 !.conditioned = TRUE, !.noenc = e.noenc,
                                 !.decoded = pre.loaded \/ e.loaded, !.asked = e.asked,
                                 !.embedded = e.embedded, !.detail = e.detail, !.used = e.used,
                                 !.against = IF e.emb = None THEN <<>>
                                             ELSE ud.voice_embeddings,
                                 !.foreign = @ \/ Touches(fs, p, r)]
       IN /\ side' = e.w.side
          /\ voice_encoder' = e.w.enc
          /\ IF e.raised # 0
             THEN /\ fs' = e.w.fs
                  /\ req' = [req EXCEPT ![r] =
                                Respond(rec, e.w.fs, 500, e.raised, "exception")]
             ELSE IF e.emb = None
             THEN /\ store_ok
                  /\ fs' = removed
                  /\ req' = [req EXCEPT ![r] =
                                Respond(rec, removed, 500, 400, "no_embedding")]
             ELSE IF NoVoiceRecord(ud)
             THEN /\ fs' = removed
                  /\ req' = [req EXCEPT ![r] =
                                Respond([rec EXCEPT !.lookup = "empty"], removed, 500,
                                        IF removable THEN 404 ELSE 0, "no_enrollment")]
             ELSE /\ fs' = removed
                  /\ req' = [req EXCEPT ![r] =
                                IF removable
                                THEN Respond([rec EXCEPT !.lookup = "gallery",
                                                 !.similarity = best.similarity,
                                                 !.match = best.match],
                                             removed, 200, 0, "")
                                ELSE Respond([rec EXCEPT !.lookup = "gallery"],
                                             removed, 500, 0, "exception")]
    /\ UNCHANGED <<threshold, loader, db, task>>

\* analyze_voice after the await
AnalyzeBody(r) ==
    /\ req[r].pc = "body" /\ req[r].h = "analyze"
    /\ \E load \in Loads :
       LET p == req[r].path
           w0 == [World EXCEPT !.fs = WriteUpload(fs, p, r, req[r].clip)]
           pre == PreprocessAudio(w0, p)
           e == ExtractEmbedding(pre.w, p, load)
           loadable == Exists(e.w.fs, p) /\ Decodable(e.w.fs[p])
           f1 == IF e.raised = 0 /\ loadable THEN RemoveFile(e.w.fs, p) ELSE e.w.fs
           rec == [req[r] EXCEPT !.emb = e.emb, !.extracted = TRUE,
                                 !.conditioned = TRUE, !.noenc = e.noenc,
                                 !.decoded = pre.loaded \/ e.loaded, !.asked = e.asked,
                                 !.embedded = e.embedded, !.detail = e.detail, !.used = e.used,
                                 !.foreign = @ \/ Touches(fs, p, r)]
       IN /\ fs' = f1
          /\ side' = e.w.side
          /\ voice_encoder' = e.w.enc
          /\ req' = [req EXCEPT ![r] =
                IF e.raised = 0 /\ loadable
                THEN Respond(rec, f1, 200, 0, "")
                ELSE Respond(rec, f1, 500, e.raised, "exception")]
    /\ UNCHANGED <<threshold, loader, db, task>>

\* compare_voice_samples: the first upload is written and embedded, the
\* second temp file is opened
CompareFirst(r) ==
    /\ req[r].pc = "body" /\ req[r].h = "compare"
    /\ \E load \in Loads :
       LET p == req[r].path
           p2 == TempPath(req[r].fn2)
           w0 == [World EXCEPT !.fs = WriteUpload(fs, p, r, req[r].clip)]
           e == ExtractEmbedding(w0, p, load)
           rec == [req[r] EXCEPT !.emb = e.emb, !.extracted = TRUE,
                                 !.conditioned = e.conditioned, !.noenc = e.noenc,
                                 !.decoded = e.loaded, !.asked = e.asked,
                                 !.embedded = e.embedded, !.detail = e.detail, !.used = e.used,
                                 !.foreign = @ \/ Touches(fs, p, r) \/ Touches(fs, p2, r)]
       IN /\ side' = e.w.side
          /\ voice_encoder' = e.w.enc
          /\ IF e.raised # 0
             THEN /\ fs' = e.w.fs
                  /\ req' = [req EXCEPT ![r] =
                                Respond(rec, e.w.fs, 500, e.raised, "exception")]
             ELSE /\ fs' = WriteFile(e.w.fs, p2, NewFile(r))
                  /\ req' = [req EXCEPT ![r] =
                                [rec EXCEPT !.pc = "body2", !.path2 = p2,
                                            !.created = @ \cup {p2}]]
    /\ UNCHANGED <<threshold, loader, db, task>>

\* compare_voice_samples: the second upload, the comparison, the two removals
CompareSecond(r) ==
    /\ req[r].pc = "body2"
    /\ \E load \in Loads :
       LET p == req[r].path
           p2 == req[r].path2
           w0 == [World EXCEPT !.fs = WriteUpload(fs, p2, r, req[r].clip2)]
           e == ExtractEmbedding(w0, p2, load)
           result == compare_voices(req[r].emb, e.emb, threshold)
           ok1 == e.raised = 0 /\ Exists(e.w.fs, p)
           f1 == IF ok1 THEN RemoveFile(e.w.fs, p) ELSE e.w.fs
           ok2 == ok1 /\ Exists(f1, p2)
           f2 == IF ok2 THEN RemoveFile(f1, p2) ELSE f1
           rec == [req[r] EXCEPT !.noenc = @ \/ e.noenc,
                                 !.decoded = @ \/ e.loaded, !.asked = @ \/ e.asked,
                                 !.embedded = @ \/ e.embedded, !.detail = e.detail, !.used = e.used,
                                 !.conditioned = @ \/ e.conditioned,
                                 !.foreign = @ \/ Touches(fs, p, r) \/ Touches(fs, p2, r)]
       IN /\ fs' = f2
          /\ side' = e.w.side
          /\ voice_encoder' = e.w.enc
          /\ req' = [req EXCEPT ![r] =
                IF ok2
                THEN Respond([rec EXCEPT !.similarity = result.similarity,
                                         !.match = result.match], f2, 200, 0, "")
                ELSE Respond(rec, f2, 500, e.raised, "exception")]
    /\ UNCHANGED <<threshold, loader, db, task>>


\* finally of register_voice and login_with_voice: the temp file is removed
\* when it still exists
Cleanup(f, p) == IF Exists(f, p) THEN RemoveFile(f, p) ELSE f

\* A write of the gallery lands in the read-write window of these tasks.
MarkOverlap(tk, writer) ==
    [q \in Req |-> IF tk[q].st = "write" /\ ~(writer.w = "task" /\ writer.q = q)
                   THEN [tk[q] EXCEPT !.overlap = @ \cup {writer}]
                   ELSE tk[q]]

\* register_voice after the first await: the upload is written, conditioned
\* and embedded
RegisterBody(r) ==
    /\ req[r].pc = "body" /\ req[r].h = "register"
    /\ \E load \in Loads :
       LET p == req[r].path
           w0 == [World EXCEPT !.fs = WriteUpload(fs, p, r, req[r].clip)]
           pre == PreprocessAudio(w0, p)
           e == ExtractEmbedding(pre.w, p, load)
           rec == [req[r] EXCEPT !.emb = e.emb, !.extracted = TRUE,
                                 !.conditioned = TRUE, !.noenc = e.noenc,
                                 !.decoded = pre.loaded \/ e.loaded, !.asked = e.asked,
                                 !.embedded = e.embedded, !.detail = e.detail, !.used = e.used,
                                 !.foreign = @ \/ Touches(fs, p, r)]
       IN IF req[r].clip = "empty"
          THEN /\ fs' = Cleanup(fs, p)
               /\ req' = [req EXCEPT ![r] =
                             Respond([req[r] EXCEPT !.foreign = @ \/ Touches(fs, p, r)],
                                     Cleanup(fs, p), 500, 400, "empty_upload")]
               /\ UNCHANGED <<side, voice_encoder>>
          ELSE /\ side' = e.w.side
               /\ voice_encoder' = e.w.enc
               /\ IF e.raised # 0 \/ e.emb = None
                  THEN /\ fs' = Cleanup(e.w.fs, p)
                       /\ req' = [req EXCEPT ![r] =
                                     Respond(rec, Cleanup(e.w.fs, p), 500,
                                             IF e.raised # 0 THEN e.raised ELSE 400,
                                             "no_embedding")]
                  ELSE /\ fs' = e.w.fs
                       /\ req' = [req EXCEPT ![r] = [rec EXCEPT !.pc = "upload"]]
    /\ UNCHANGED <<threshold, loader, db, task>>

\* The check of initial_success left out: the task is scheduled either way.
SeedStoreFailed_Ignored(initial_success) == FALSE

\* if not initial_success: raise
SeedStoreFailed(initial_success) == ~initial_success

\* register_voice after await upload_voice_recording: the seed embedding is
\* stored and, with background tasks, the augmentation task is scheduled
RegisterStore(r) ==
    /\ req[r].pc = "upload"
    /\ \E azure_ok \in BOOLEAN, store_ok \in BOOLEAN :
       LET p == req[r].path
           voice_url == IF azure_ok /\ Exists(fs, p) THEN r ELSE 0
           u == update_user_voice_gallery(db, <<req[r].emb>>, voice_url, store_ok)
           rec == [req[r] EXCEPT !.url = voice_url,
                                 !.foreign = @ \/ Touches(fs, p, r)]
           stored == [rec EXCEPT !.seed = IF u.ret THEN "ok" ELSE "fail",
                         !.dropped = Range(db.voice_embeddings) \ {req[r].emb}]
           writer == [w |-> "seed", q |-> r]
       IN IF voice_url = 0
          THEN /\ store_ok
               /\ fs' = Cleanup(fs, p)
               /\ req' = [req EXCEPT ![r] =
                             Respond(rec, Cleanup(fs, p), 500, 503, "upload_failed")]
               /\ UNCHANGED <<db, task>>
          ELSE /\ db' = u.db
               /\ IF req[r].bg
                  THEN IF SeedStoreFailed(u.ret)
                       THEN /\ fs' = Cleanup(fs, p)
                            /\ req' = [req EXCEPT ![r] =
                                   Respond(stored, Cleanup(fs, p), 500, 500, "store_failed")]
                            /\ task' = IF u.db # db THEN MarkOverlap(task, writer) ELSE task
                       ELSE /\ fs' = fs
                            /\ req' = [req EXCEPT ![r] = Respond(stored, fs, 200, 0, "")]
                            /\ task' = [(IF u.db # db THEN MarkOverlap(task, writer) ELSE task)
                                           EXCEPT ![r] = [NoTask EXCEPT !.st = "queued",
                                                             !.path = p, !.url = voice_url]]
                  ELSE /\ fs' = Cleanup(fs, p)
                       /\ task' = IF u.db # db THEN MarkOverlap(task, writer) ELSE task
                       /\ req' = [req EXCEPT ![r] =
                              IF u.ret
                              THEN Respond(stored, Cleanup(fs, p), 200, 0, "")
                              ELSE Respond(stored, Cleanup(fs, p), 500, 500, "store_failed")]
    /\ UNCHANGED <<side, voice_encoder, threshold, loader>>

\* The comparison with the threshold left out: every voice is accepted.
VoiceRejected_Never(is_match, best_similarity, t) == FALSE

\* if not is_match or best_similarity < VOICE_SIMILARITY_THRESHOLD: raise 401
VoiceRejected(is_match, best_similarity, t) == ~is_match \/ best_similarity < t

\* login_with_voice after await voice_recording.read()
Login(r) ==
    /\ req[r].pc = "login"
    /\ \E user_ok \in BOOLEAN, store_ok \in BOOLEAN, load \in Loads :
       LET user == get_user_by_email(db, user_ok)
           p == NamedTemp(req[r].fn, r)
           w0 == [World EXCEPT !.fs = WriteFile(fs, p,
                      [clip |-> req[r].clip, var |-> "orig", by |-> r, cond |-> FALSE])]
           pre == PreprocessAudio(w0, p)
           e == ExtractEmbedding(pre.w, p, load)
           ud == get_user_voice_data(db, store_ok)
           stored_embeddings == IF ud.voice_embedding # None /\ ud.voice_embeddings = <<>>
                                THEN <<ud.voice_embedding>>
                                ELSE ud.voice_embeddings
           best == BestMatch(e.emb, stored_embeddings, threshold)
           f1 == Cleanup(e.w.fs, p)
           rec == [req[r] EXCEPT !.path = p, !.created = {p}, !.emb = e.emb,
                                 !.extracted = TRUE, !.conditioned = TRUE,
                                 !.noenc = e.noenc,
                                 !.decoded = pre.loaded \/ e.loaded, !.asked = e.asked,
                                 !.embedded = e.embedded, !.detail = e.detail, !.used = e.used,
                                 !.against = IF e.emb = None THEN <<>>
                                             ELSE stored_embeddings]
       IN IF req[r].clip = "huge"
          THEN /\ user_ok /\ store_ok
               /\ req' = [req EXCEPT ![r] = Respond(req[r], fs, 400, 400, "too_large")]
               /\ UNCHANGED <<fs, side, voice_encoder>>
          ELSE IF req[r].clip = "empty"
          THEN /\ user_ok /\ store_ok
               /\ req' = [req EXCEPT ![r] = Respond(req[r], fs, 400, 400, "empty_upload")]
               /\ UNCHANGED <<fs, side, voice_encoder>>
          ELSE IF ~user.exists
          THEN /\ store_ok
               /\ req' = [req EXCEPT ![r] = Respond(req[r], fs, 401, 401, "unknown_user")]
               /\ UNCHANGED <<fs, side, voice_encoder>>
          ELSE IF user.voice_url = 0 /\ user.voice_embedding = None
                  /\ user.voice_embeddings = <<>>
          THEN /\ store_ok
               /\ req' = [req EXCEPT ![r] =
                             Respond([req[r] EXCEPT !.lookup = "empty"], fs, 400, 400,
                                     "no_enrollment")]
               /\ UNCHANGED <<fs, side, voice_encoder>>
          ELSE /\ fs' = f1
               /\ side' = e.w.side
               /\ voice_encoder' = e.w.enc
               /\ req' = [req EXCEPT ![r] =
                      IF e.raised # 0
                      THEN Respond(rec, f1, e.raised, e.raised, "encoder_unavailable")
                      ELSE IF e.emb = None
                      THEN Respond(rec, f1, 400, 400, "no_embedding")
                      ELSE IF ~ud.exists
                      THEN Respond(rec, f1, 500, 0, "exception")
                      ELSE IF stored_embeddings = <<>>
                      THEN Respond([rec EXCEPT !.lookup = "empty"], f1, 400, 400,
                                   "no_enrollment")
                      ELSE IF VoiceRejected(best.match, best.similarity, threshold)
                      THEN Respond([rec EXCEPT !.lookup = "gallery",
                                       !.similarity = best.similarity],
                                   f1, 401, 401, "no_match")
                      ELSE Respond([rec EXCEPT !.lookup = "gallery",
                                       !.similarity = best.similarity,
                                       !.match = TRUE, !.token = TRUE],
                                   f1, 200, 0, "")]
    /\ UNCHANGED <<threshold, loader, db, task>>


\* MongoDBClient.create_user: False when the user exists or the store raised;
\* the optional voice fields are stored only when they are not None.
create_user(d, voice_embedding, voice_url, voice_embeddings, store_ok) ==
    IF ~store_ok \/ d.exists THEN [ret |-> FALSE, db |-> d]
    ELSE [ret |-> TRUE,
          db |-> [NoUser EXCEPT !.exists = TRUE,
                                !.voice_embedding = voice_embedding,
                                !.has_gallery = voice_embeddings # <<>>,
                                !.voice_embeddings = voice_embeddings,
                                !.voice_url = voice_url]]

\* /auth/register with a voice recording.  extract_embedding returns a list,
\* so voice_embedding.tolist() raises AttributeError: inside the inner try it
\* is logged and voice_embeddings stays None; in the arguments of create_user
\* it reaches the outer handler, which answers 500.  Without a face photo
\* face_url is never bound and the same call raises as well.
AuthRegister(r) ==
    /\ req[r].pc = "authreg"
    /\ \E user_ok \in BOOLEAN, azure_ok \in BOOLEAN, store_ok \in BOOLEAN,
          face_photo \in BOOLEAN, load \in Loads :
       LET existing_user == get_user_by_email(db, user_ok)
           p == NamedTemp(req[r].fn, r)
           w0 == [World EXCEPT !.fs = WriteFile(fs, p,
                      [clip |-> req[r].clip, var |-> "orig", by |-> r, cond |-> FALSE])]
           pre == PreprocessAudio(w0, p)
           e == ExtractEmbedding(pre.w, p, load)
           voice_embedding == IF azure_ok /\ e.raised = 0 THEN e.emb ELSE None
           u == create_user(db, voice_embedding, 0, <<>>, store_ok)
           f1 == Cleanup(e.w.fs, p)
           rec == IF azure_ok
                  THEN [req[r] EXCEPT !.path = p, !.created = {p}, !.emb = voice_embedding,
                                      !.extracted = TRUE, !.conditioned = TRUE,
                                      !.noenc = e.noenc,
                                      !.decoded = pre.loaded \/ e.loaded,
                                      !.asked = e.asked, !.embedded = e.embedded,
                                      !.detail = e.detail, !.used = e.used]
                  ELSE req[r]
       IN IF existing_user.exists
          THEN /\ store_ok /\ azure_ok /\ face_photo
               /\ req' = [req EXCEPT ![r] = Respond(req[r], fs, 400, 400, "exists")]
               /\ UNCHANGED <<fs, side, voice_encoder, db>>
          ELSE IF azure_ok /\ req[r].clip = "empty"
          THEN /\ store_ok /\ face_photo
               /\ req' = [req EXCEPT ![r] =
                             Respond([req[r] EXCEPT !.path = p, !.created = {p}],
                                     fs, 400, 400, "empty_upload")]
               /\ UNCHANGED <<fs, side, voice_encoder, db>>
          ELSE /\ fs' = IF azure_ok THEN f1 ELSE fs
               /\ side' = IF azure_ok THEN e.w.side ELSE side
               /\ voice_encoder' = IF azure_ok THEN e.w.enc ELSE voice_encoder
               /\ IF voice_embedding # None \/ ~face_photo
                  THEN /\ store_ok
                       /\ db' = db
                       /\ req' = [req EXCEPT ![r] =
                                     Respond(rec, fs', 500, 500, "server_error")]
                  ELSE /\ db' = u.db
                       /\ req' = [req EXCEPT ![r] =
                                     IF u.ret
                                     THEN Respond([rec EXCEPT !.token = TRUE],
                                                  fs', 200, 0, "")
                                     ELSE Respond(rec, fs', 500, 500, "create_failed")]
    /\ UNCHANGED <<threshold, loader, task>>


\* The request is cancelled while its handler waits at an await (the read of
\* an upload, or upload_voice_recording): asyncio.wait_for in log_requests
\* timed out, or the client went away.  The exception unwinds the handler:
\* register_voice has a finally that removes temp_file_path, the other
\* handlers of /voice remove their file only on the path that returns.
Cancel(r) ==
    /\ req[r].pc \in {"body", "body2", "upload"}
    /\ LET p == req[r].path
           f1 == IF req[r].h = "register" THEN Cleanup(fs, p) ELSE fs
       IN /\ fs' = f1
          /\ req' = [req EXCEPT ![r] =
                        Respond([req[r] EXCEPT !.foreign = @ \/ Touches(fs, p, r)],
                                f1, 504, 0, "cancelled")]
    /\ UNCHANGED <<side, voice_encoder, threshold, loader, db, task>>


\* ---------------------------------------------------------- silence trimming
\* Durations are in tenths of a second.
\* if final_duration < 0.5 (restore the preprocessed audio)
MinTrimmed == 5

\* if final_duration < 0.3 (final verification)
MinFinal == 3

\* preprocess_audio from step 8 on, for an input of duration whole whose
\* non-silent chunks add up to trimmed (0: no chunk, with either threshold).
\* fault names the pydub call that raises, if any: "from_file" (the load of
\* audio_path), "export_final", "export_audio" (the export over audio_path,
\* which leaves it partly written) or "restore" (the load of the preprocessed
\* copy); fallback_ok tells whether the fallback of the except block works.
\* The result is the value returned and the audio left at audio_path.
TrimSilence(whole, trimmed, fault, fallback_ok) ==
    LET pretrim == [kind |-> "pretrim", dur |-> whole]
        cut == [kind |-> "trimmed", dur |-> trimmed]
        \* the try block of step 9: the audio it leaves and whether it raised
        tried ==
            IF fault = "from_file" THEN [audio |-> pretrim, raised |-> TRUE]
            ELSE IF trimmed > 0
            THEN IF fault = "export_final" THEN [audio |-> pretrim, raised |-> TRUE]
                 ELSE IF fault = "export_audio"
                 THEN [audio |-> [kind |-> "partial", dur |-> 0], raised |-> TRUE]
                 ELSE IF trimmed < MinTrimmed
                 THEN IF fault = "restore" THEN [audio |-> cut, raised |-> TRUE]
                      ELSE [audio |-> pretrim, raised |-> FALSE]
                 ELSE [audio |-> cut, raised |-> FALSE]
            ELSE IF fault = "restore" THEN [audio |-> pretrim, raised |-> TRUE]
                 ELSE [audio |-> pretrim, raised |-> FALSE]
        \* step 14: a final audio under 0.3 s is replaced by the preprocessed copy
        verified == IF tried.audio.dur < MinFinal THEN pretrim ELSE tried.audio
        \* step 15: an empty final file is replaced by the original copy
        final == IF verified.kind = "empty"
                 THEN [kind |-> "original", dur |-> whole] ELSE verified
    IN IF tried.raised
       THEN [ret |-> TRUE, audio |-> IF fallback_ok THEN pretrim ELSE tried.audio]
       ELSE [ret |-> TRUE, audio |-> final]

\* A call of preprocess_audio on a decodable upload
Condition(r, whole, trimmed, fault, fallback_ok) ==
    /\ req[r].h = "idle"
    /\ \A q \in Req : q < r => req[q].pc = "done"
    /\ trimmed <= whole
    /\ LET p == TempPath("a.wav")
           t == TrimSilence(whole, trimmed, fault, fallback_ok)
       IN /\ fs' = WriteFile(fs, p, [clip |-> "x", var |-> "orig", by |-> r,
                                     cond |-> t.ret])
          /\ side' = side \cup {[p |-> p, s |-> x] :
                                   x \in IF trimmed > 0 /\ fault \notin {"from_file",
                                                                        "export_final"}
                                         THEN SideSuffixes
                                         ELSE SideSuffixes \ {".final.wav"}}
          /\ req' = [req EXCEPT ![r] =
                 [IdleReq EXCEPT !.h = "preprocess", !.pc = "done", !.path = p,
                                 !.clip = "x", !.conditioned = t.ret,
                                 !.audio = t.audio,
                                 !.faults = <<whole, trimmed, fault, fallback_ok>>]]
    /\ UNCHANGED <<voice_encoder, threshold, loader, db, task>>

\* ------------------------------------------------- store_multiple_embeddings
\* The existence check and librosa.load of the enrollment file
TaskLoad(r) ==
    /\ task[r].st = "queued"
    /\ LET p == task[r].path
           t == [task[r] EXCEPT !.foreign = @ \/ Touches(fs, p, r)]
       IN task' = [task EXCEPT ![r] =
              IF Exists(fs, p) /\ Decodable(fs[p])
              THEN [t EXCEPT !.st = "stretch", !.y = fs[p]]
              ELSE [t EXCEPT !.st = "finally", !.ret = "False"]]
    /\ UNCHANGED <<fs, side, voice_encoder, threshold, loader, db, req>>

\* A variant that was not produced is skipped, not fatal.
VariantNext_FailFast(next, produced) == IF produced THEN next ELSE "finally"

\* Each variant has its own try/except: whatever happened to this one, the
\* function goes on to the stage that follows it.
VariantNext(next, produced) == next

\* One variant: the perturbed audio is generated (librosa.effects and sf.write
\* may raise: outcomes holds FALSE when they may), written to its temp file
\* and embedded
TaskVariant(r, st, var, vp, next, outcomes) ==
    /\ task[r].st = st
    /\ \E load \in Loads, generated \in outcomes :
       LET w0 == IF generated
                 THEN [World EXCEPT !.fs = WriteFile(fs, vp,
                          [clip |-> task[r].y.clip, var |-> var, by |-> r, cond |-> FALSE])]
                 ELSE World
           e == ExtractEmbedding(w0, vp, load)
           produced == generated /\ e.raised = 0 /\ e.emb # None
           w1 == IF generated THEN e.w ELSE World
           embs == IF produced THEN Append(task[r].embs, e.emb) ELSE task[r].embs
           after == VariantNext(next, produced)
       IN /\ fs' = w1.fs
          /\ side' = w1.side
          /\ voice_encoder' = w1.enc
          /\ task' = [task EXCEPT ![r] =
                 [@ EXCEPT !.temp_files = @ \cup {vp}, !.embs = embs,
                           !.tried = @ \cup {var},
                           !.foreign = @ \/ (generated /\ Touches(fs, vp, r)),
                           !.st = IF after = "read" /\ embs = <<>>
                                  THEN "finally" ELSE after,
                           !.ret = IF after = "read" /\ embs = <<>>
                                   THEN "True"
                                   ELSE IF after = "finally" THEN "False" ELSE @]]
    /\ UNCHANGED <<threshold, loader, db, req>>

TaskStretch(r, outcomes) ==
    TaskVariant(r, "stretch", "stretch", StretchPath(task[r].path), "pitch", outcomes)

TaskPitch(r, outcomes) ==
    TaskVariant(r, "pitch", "pitch", PitchPath(task[r].path), "read", outcomes)

\* existing_embeddings + embeddings, or the new ones alone
Combine(user_data, embeddings) ==
    IF user_data.exists /\ user_data.has_gallery
    THEN user_data.voice_embeddings \o embeddings
    ELSE embeddings

\* mongo_client.get_user_voice_data and the combination with the new embeddings
TaskRead(r) ==
    /\ task[r].st = "read"
    /\ \E store_ok \in BOOLEAN :
       task' = [task EXCEPT ![r] =
                  [@ EXCEPT !.st = "write",
                            !.combined = Combine(get_user_voice_data(db, store_ok),
                                                 task[r].embs)]]
    /\ UNCHANGED <<fs, side, voice_encoder, threshold, loader, db, req>>

\* mongo_client.update_user_voice_gallery with the combined list
TaskWrite(r) ==
    /\ task[r].st = "write"
    /\ \E store_ok \in BOOLEAN :
       LET u == update_user_voice_gallery(db, task[r].combined, task[r].url, store_ok)
           marked == IF u.db # db
                     THEN MarkOverlap(task, [w |-> "task", q |-> r]) ELSE task
       IN /\ db' = u.db
          /\ task' = [marked EXCEPT ![r] =
                 [@ EXCEPT !.st = "finally",
                           !.ret = IF u.ret THEN "True" ELSE "False",
                           !.wrote = IF u.db # db THEN Range(task[r].embs) ELSE {},
                           !.prior = db.voice_embeddings]]
    /\ UNCHANGED <<fs, side, voice_encoder, threshold, loader, req>>

RECURSIVE RemoveAll(_, _)
RemoveAll(f, paths) ==
    IF paths = {} THEN f
    ELSE LET p == CHOOSE q \in paths : TRUE
         IN RemoveAll(Cleanup(f, p), paths \ {p})

\* finally: the variant files and the enrollment file are removed
TaskFinally(r) ==
    /\ task[r].st = "finally"
    /\ fs' = RemoveAll(fs, task[r].temp_files \cup {task[r].path})
    /\ task' = [task EXCEPT ![r] =
           [@ EXCEPT !.st = "done",
                     !.foreign = @ \/ \E p \in task[r].temp_files \cup {task[r].path} :
                                          Touches(fs, p, r)]]
    /\ UNCHANGED <<side, voice_encoder, threshold, loader, db, req>>

\* ------------------------------------------------------- loading the encoder
\* In the steps below voice_encoder is "None", "probing" (assigned by
\* voice_encoder = VoiceEncoder(), its probe not finished), "good" (a probe
\* of it completed) or "bad" (a probe of it threw).

\* _ = voice_encoder.embed_utterance(dummy_audio) on the instance the global
\* holds now: the encoder is deterministic, so an instance that passed passes
\* again and one that threw throws again.
ProbeOutcomes(enc) ==
    CASE enc = "good" -> {"good"}
      [] enc = "bad" -> {"bad"}
      [] OTHER -> {"good", "bad"}

\* load_model_in_background after time.sleep(10): voice_encoder =
\* VoiceEncoder(), with no look at what the global holds; an exception ends
\* the thread
LoaderConstruct ==
    /\ loader.pc = "sleep"
    /\ \E built \in BOOLEAN :
          IF built
          THEN /\ voice_encoder' = "probing"
               /\ loader' = [pc |-> "probe", built |-> loader.built + 1]
          ELSE /\ voice_encoder' = voice_encoder
               /\ loader' = [loader EXCEPT !.pc = "done"]
    /\ UNCHANGED <<fs, side, threshold, db, req, task>>

\* load_model_in_background: the probe; an exception is logged and the global
\* keeps the instance
LoaderProbe ==
    /\ loader.pc = "probe"
    /\ \E outcome \in ProbeOutcomes(voice_encoder) : voice_encoder' = outcome
    /\ loader' = [loader EXCEPT !.pc = "done"]
    /\ UNCHANGED <<fs, side, threshold, db, req, task>>

\* GET /voice/warmup arrives (handlers run one at a time on the event loop,
\* next to the loader thread) and get_voice_encoder tests the global: an
\* instance that is there is returned as it is
WarmupCall(r) ==
    /\ req[r].h = "idle"
    /\ \A q \in Req : q < r => req[q].pc = "done"
    /\ req' = [req EXCEPT ![r] =
          IF ~RESEMBLYZER_AVAILABLE
          THEN [IdleReq EXCEPT !.h = "warmup", !.pc = "done", !.status = 200,
                               !.err = "unavailable", !.handed = "None"]
          ELSE IF voice_encoder = "None"
          THEN [IdleReq EXCEPT !.h = "warmup", !.pc = "construct"]
          ELSE [IdleReq EXCEPT !.h = "warmup", !.pc = "returned",
                               !.handed = voice_encoder]]
    /\ UNCHANGED <<fs, side, voice_encoder, threshold, db, task, loader>>

\* get_voice_encoder: voice_encoder = VoiceEncoder(); an exception makes it
\* return None
WarmupConstruct(r) ==
    /\ req[r].pc = "construct"
    /\ \E built \in BOOLEAN :
          IF built
          THEN /\ voice_encoder' = "probing"
               /\ loader' = [loader EXCEPT !.built = @ + 1]
               /\ req' = [req EXCEPT ![r].pc = "probe"]
          ELSE /\ voice_encoder' = voice_encoder
               /\ loader' = loader
               /\ req' = [req EXCEPT ![r].pc = "returned", ![r].handed = "None",
                                     ![r].noenc = TRUE]
    /\ UNCHANGED <<fs, side, threshold, db, task>>

\* get_voice_encoder: the probe, then return voice_encoder; when the probe
\* throws, None is returned and the global keeps the instance
WarmupProbe(r) ==
    /\ req[r].pc = "probe"
    /\ \E outcome \in ProbeOutcomes(voice_encoder) :
          /\ voice_encoder' = outcome
          /\ req' = [req EXCEPT ![r].pc = "returned",
                                ![r].handed = IF outcome = "bad" THEN "None"
                                              ELSE outcome,
                                ![r].noenc = (outcome = "bad")]
    /\ UNCHANGED <<fs, side, threshold, db, task, loader>>

\* warmup with what get_voice_encoder returned: None is reported, an instance
\* is run on one second of silence
WarmupUse(r) ==
    /\ req[r].pc = "returned"
    /\ IF req[r].handed = "None"
       THEN /\ voice_encoder' = voice_encoder
            /\ req' = [req EXCEPT ![r].pc = "done", ![r].status = 200,
                                  ![r].err = "no_encoder"]
       ELSE \E outcome \in ProbeOutcomes(voice_encoder) :
               /\ voice_encoder' = outcome
               /\ req' = [req EXCEPT ![r].pc = "done", ![r].status = 200,
                                     ![r].embedded = TRUE,
                                     ![r].err = IF outcome = "bad" THEN "exception"
                                                ELSE ""]
    /\ UNCHANGED <<fs, side, threshold, db, task, loader>>

\* ------------------------------------------------------------------- system
Next ==
    \/ \E r \in Req, h \in {"extract", "verify", "analyze"}, fn \in FileNames,
          clip \in Clips : Start(r, h, fn, clip, FALSE, "a.wav", "empty")
    \/ \E r \in Req, clip \in Clips :
          Start(r, "login", "a.wav", clip, FALSE, "a.wav", "empty")
    \/ \E r \in Req, fn \in FileNames, clip \in Clips, bg \in BOOLEAN :
          Start(r, "register", fn, clip, bg, "a.wav", "empty")
    \/ \E r \in Req, fn \in FileNames, clip \in Clips, fn2 \in FileNames :
          Start(r, "compare", fn, clip, FALSE, fn2, "x")
    \/ \E r \in Req : OpenUpload(r)
    \/ \E r \in Req : ExtractBody(r)
    \/ \E r \in Req : VerifyBody(r)
    \/ \E r \in Req : AnalyzeBody(r)
    \/ \E r \in Req : CompareFirst(r)
    \/ \E r \in Req : CompareSecond(r)
    \/ \E r \in Req : RegisterBody(r)
    \/ \E r \in Req : RegisterStore(r)
    \/ \E r \in Req : Login(r)
    \/ \E r \in Req : TaskLoad(r)
    \/ \E r \in Req : TaskStretch(r, {TRUE})
    \/ \E r \in Req : TaskPitch(r, {TRUE})
    \/ \E r \in Req : TaskRead(r)
    \/ \E r \in Req : TaskWrite(r)
    \/ \E r \in Req : TaskFinally(r)

Spec == Init /\ [][Next]_vars

\* Two requests of the enrollment and verification endpoints in flight at
\* the same time, interleaved at their await points.
NextConc ==
    \/ \E r \in Req, fn \in FileNames, clip \in Clips :
          Arrive(r, "verify", fn, clip, FALSE, "a.wav", "empty")
    \/ \E r \in Req, fn \in FileNames, clip \in Clips, bg \in BOOLEAN :
          Arrive(r, "register", fn, clip, bg, "a.wav", "empty")
    \/ \E r \in Req : OpenUpload(r)
    \/ \E r \in Req : VerifyBody(r)
    \/ \E r \in Req : RegisterBody(r)
    \/ \E r \in Req : RegisterStore(r)
    \/ \E r \in Req : TaskLoad(r)
    \/ \E r \in Req : TaskStretch(r, {TRUE})
    \/ \E r \in Req : TaskPitch(r, {TRUE})
    \/ \E r \in Req : TaskRead(r)
    \/ \E r \in Req : TaskWrite(r)
    \/ \E r \in Req : TaskFinally(r)

SpecConc == Init /\ [][NextConc]_vars

\* Verification against any enrolled gallery under any configured threshold.
MaxGallery == 2

Thresholds == {0, VOICE_SIMILARITY_THRESHOLD, 100}

Embeddings == {Embed(c, v) : c \in {"x", "y"}, v \in Variants}

Galleries == UNION {[1..n -> Embeddings] : n \in 1..MaxGallery}

InitMatch ==
    /\ fs = <<>>
    /\ side = {}
    /\ voice_encoder = "None"
    /\ threshold \in Thresholds
    /\ \E g \in Galleries :
          db = [NewUser EXCEPT !.has_gallery = TRUE, !.voice_embeddings = g,
                               !.voice_url = 1]
    /\ req = [r \in Req |-> IdleReq]
    /\ task = [r \in Req |-> NoTask]
    /\ loader = NoLoader

NextMatch ==
    \/ \E r \in Req, clip \in {"x", "y"} :
          Start(r, "verify", "a.wav", clip, FALSE, "a.wav", "empty")
    \/ \E r \in Req, clip \in {"x", "y"} :
          Start(r, "login", "a.wav", clip, FALSE, "a.wav", "empty")
    \/ \E r \in Req : OpenUpload(r)
    \/ \E r \in Req : VerifyBody(r)
    \/ \E r \in Req : Login(r)

SpecMatch == InitMatch /\ [][NextMatch]_vars


\* Enrollments one after the other, with augmentation runs in which the
\* generation of a variant may raise.
NextAugment ==
    \/ \E r \in Req, clip \in {"x", "y"}, bg \in BOOLEAN :
          Start(r, "register", "a.wav", clip, bg, "a.wav", "empty")
    \/ \E r \in Req : OpenUpload(r)
    \/ \E r \in Req : RegisterBody(r)
    \/ \E r \in Req : RegisterStore(r)
    \/ \E r \in Req : TaskLoad(r)
    \/ \E r \in Req : TaskStretch(r, BOOLEAN)
    \/ \E r \in Req : TaskPitch(r, BOOLEAN)
    \/ \E r \in Req : TaskRead(r)
    \/ \E r \in Req : TaskWrite(r)
    \/ \E r \in Req : TaskFinally(r)

SpecAugment == Init /\ [][NextAugment]_vars

\* Requests of the endpoints that embed one upload, one after the other, with
\* every kind of upload.
NextUpload ==
    \/ \E r \in Req, h \in {"extract", "verify"}, clip \in Uploads :
          Start(r, h, "a.wav", clip, FALSE, "a.wav", "empty")
    \/ \E r \in Req, clip \in Uploads :
          Start(r, "login", "a.wav", clip, FALSE, "a.wav", "empty")
    \/ \E r \in Req, clip \in Uploads :
          Start(r, "register", "a.wav", clip, FALSE, "a.wav", "empty")
    \/ \E r \in Req : OpenUpload(r)
    \/ \E r \in Req : ExtractBody(r)
    \/ \E r \in Req : VerifyBody(r)
    \/ \E r \in Req : RegisterBody(r)
    \/ \E r \in Req : RegisterStore(r)
    \/ \E r \in Req : Login(r)

SpecUpload == Init /\ [][NextUpload]_vars

\* Verifications while the augmentation run of an enrollment answered
\* earlier grows the gallery: the state register_voice leaves behind when it
\* has responded (seed stored, conditioned temp file kept for the task,
\* encoder loaded, task queued).
InitGrow ==
    \E clip \in {"x", "y"} :
        LET p == TempPath("a.wav")
        IN /\ fs = WriteFile(<<>>, p, [clip |-> clip, var |-> "orig", by |-> 1,
                                       cond |-> TRUE])
           /\ side = {[p |-> p, s |-> s] : s \in SideSuffixes}
           /\ voice_encoder = "good"
           /\ threshold \in Thresholds
           /\ db = [NewUser EXCEPT !.has_gallery = TRUE,
                                   !.voice_embeddings = <<Embed(clip, "orig")>>,
                                   !.voice_url = 1]
           /\ req = [r \in Req |-> IdleReq]
           /\ task = [r \in Req |-> IF r = 1
                                    THEN [NoTask EXCEPT !.st = "queued", !.path = p,
                                                        !.url = 1]
                                    ELSE NoTask]
           /\ loader = NoLoader

NextGrow ==
    \/ \E r \in Req, clip \in {"x", "y"} :
          Start(r, "verify", "b.wav", clip, FALSE, "a.wav", "empty")
    \/ \E r \in Req, clip \in {"x", "y"} :
          Start(r, "login", "b.wav", clip, FALSE, "a.wav", "empty")
    \/ \E r \in Req : OpenUpload(r)
    \/ \E r \in Req : VerifyBody(r)
    \/ \E r \in Req : Login(r)
    \/ \E r \in Req : TaskLoad(r)
    \/ \E r \in Req : TaskStretch(r, BOOLEAN)
    \/ \E r \in Req : TaskPitch(r, BOOLEAN)
    \/ \E r \in Req : TaskRead(r)
    \/ \E r \in Req : TaskWrite(r)
    \/ \E r \in Req : TaskFinally(r)

SpecGrow == InitGrow /\ [][NextGrow]_vars

\* Calls of compare_voices on any pair of embeddings, degenerate ones
\* included, under any configured threshold.
Vectors == {None, <<0, 0>>} \cup Embeddings

InitScore ==
    /\ fs = <<>>
    /\ side = {}
    /\ voice_encoder = "None"
    /\ threshold \in Thresholds
    /\ db = NewUser
    /\ req = [r \in Req |-> IdleReq]
    /\ task = [r \in Req |-> NoTask]
    /\ loader = NoLoader

\* compare_voices(embedding1, embedding2, threshold) is called and returns
Score(r, embedding1, embedding2) ==
    /\ req[r].h = "idle"
    /\ \A q \in Req : q < r => req[q].h # "idle"
    /\ LET result == compare_voices(embedding1, embedding2, threshold)
       IN req' = [req EXCEPT ![r] =
              [IdleReq EXCEPT !.h = "score", !.pc = "done", !.status = 200,
                              !.emb = embedding1, !.emb2 = embedding2,
                              !.similarity = result.similarity,
                              !.match = result.match]]
    /\ UNCHANGED <<fs, side, voice_encoder, threshold, loader, db, task>>

NextScore ==
    \E r \in Req, embedding1 \in Vectors, embedding2 \in Vectors :
        Score(r, embedding1, embedding2)

SpecScore == InitScore /\ [][NextScore]_vars

\* An enrollment, through either endpoint, followed by a verification, with
\* or without an existing account at the start.
InitEnroll ==
    /\ fs = <<>>
    /\ side = {}
    /\ voice_encoder = "None"
    /\ threshold = VOICE_SIMILARITY_THRESHOLD
    /\ db \in {NoUser, NewUser}
    /\ req = [r \in Req |-> IdleReq]
    /\ task = [r \in Req |-> NoTask]
    /\ loader = NoLoader

NextEnroll ==
    \/ \E r \in Req, clip \in Clips, bg \in BOOLEAN :
          Start(r, "register", "a.wav", clip, bg, "a.wav", "empty")
    \/ \E r \in Req, clip \in Clips :
          Start(r, "authreg", "a.wav", clip, FALSE, "a.wav", "empty")
    \/ \E r \in Req, clip \in {"x", "y"} :
          Start(r, "verify", "b.wav", clip, FALSE, "a.wav", "empty")
    \/ \E r \in Req, clip \in {"x", "y"} :
          Start(r, "login", "b.wav", clip, FALSE, "a.wav", "empty")
    \/ \E r \in Req : OpenUpload(r)
    \/ \E r \in Req : RegisterBody(r)
    \/ \E r \in Req : RegisterStore(r)
    \/ \E r \in Req : AuthRegister(r)
    \/ \E r \in Req : VerifyBody(r)
    \/ \E r \in Req : Login(r)
    \/ \E r \in Req : TaskLoad(r)
    \/ \E r \in Req : TaskStretch(r, {TRUE})
    \/ \E r \in Req : TaskPitch(r, {TRUE})
    \/ \E r \in Req : TaskRead(r)
    \/ \E r \in Req : TaskWrite(r)
    \/ \E r \in Req : TaskFinally(r)

SpecEnroll == InitEnroll /\ [][NextEnroll]_vars

\* Requests of the /voice endpoints, one after the other, any of which may be
\* cancelled at one of its awaits.
NextCancel ==
    \/ \E r \in Req, h \in {"extract", "verify", "analyze"}, clip \in Clips :
          Start(r, h, "a.wav", clip, FALSE, "a.wav", "empty")
    \/ \E r \in Req, clip \in Clips :
          Start(r, "register", "a.wav", clip, FALSE, "a.wav", "empty")
    \/ \E r \in Req, clip \in Clips :
          Start(r, "compare", "a.wav", clip, FALSE, "b.wav", "x")
    \/ \E r \in Req : OpenUpload(r)
    \/ \E r \in Req : ExtractBody(r)
    \/ \E r \in Req : VerifyBody(r)
    \/ \E r \in Req : AnalyzeBody(r)
    \/ \E r \in Req : CompareFirst(r)
    \/ \E r \in Req : CompareSecond(r)
    \/ \E r \in Req : RegisterBody(r)
    \/ \E r \in Req : RegisterStore(r)
    \/ \E r \in Req : Cancel(r)

SpecCancel == Init /\ [][NextCancel]_vars

\* The process from its start: the loader thread next to warmup requests.
NextLoader ==
    \/ LoaderConstruct
    \/ LoaderProbe
    \/ \E r \in Req : WarmupCall(r)
    \/ \E r \in Req : WarmupConstruct(r)
    \/ \E r \in Req : WarmupProbe(r)
    \/ \E r \in Req : WarmupUse(r)

SpecLoader == Init /\ [][NextLoader]_vars

\* Enrollments and verifications with recordings that pass every check of
\* extract_embedding; on "silent" the encoder returns the all-zero vector.
Recordings == {"x", "y", "silent"}

NextSilent ==
    \/ \E r \in Req, clip \in Recordings, bg \in BOOLEAN :
          Start(r, "register", "a.wav", clip, bg, "a.wav", "empty")
    \/ \E r \in Req, clip \in Recordings :
          Start(r, "verify", "b.wav", clip, FALSE, "a.wav", "empty")
    \/ \E r \in Req, clip \in Recordings :
          Start(r, "login", "b.wav", clip, FALSE, "a.wav", "empty")
    \/ \E r \in Req : OpenUpload(r)
    \/ \E r \in Req : RegisterBody(r)
    \/ \E r \in Req : RegisterStore(r)
    \/ \E r \in Req : VerifyBody(r)
    \/ \E r \in Req : Login(r)
    \/ \E r \in Req : TaskLoad(r)
    \/ \E r \in Req : TaskStretch(r, {TRUE})
    \/ \E r \in Req : TaskPitch(r, {TRUE})
    \/ \E r \in Req : TaskRead(r)
    \/ \E r \in Req : TaskWrite(r)
    \/ \E r \in Req : TaskFinally(r)

SpecSilent == Init /\ [][NextSilent]_vars

\* Calls of preprocess_audio on inputs of any length with any outcome of the
\* silence detection and a fault at any of its pydub calls.
TrimFaults == {"none", "from_file", "export_final", "export_audio", "restore"}

Durations == {2, 4, 5, 10}

NextTrim ==
    \E r \in Req, whole \in Durations, trimmed \in {0} \cup Durations,
       fault \in TrimFaults, fallback_ok \in BOOLEAN :
        Condition(r, whole, trimmed, fault, fallback_ok)

SpecTrim == Init /\ [][NextTrim]_vars

\* Requests of the endpoints that embed and assess one upload, with clips of
\* any duration: under 1 s, ordinary, and over 10 s.
NextQuality ==
    \/ \E r \in Req, h \in {"extract", "analyze"}, fn \in FileNames,
          clip \in {"short", "x", "long"} :
          Start(r, h, fn, clip, FALSE, "a.wav", "empty")
    \/ \E r \in Req : OpenUpload(r)
    \/ \E r \in Req : ExtractBody(r)
    \/ \E r \in Req : AnalyzeBody(r)

SpecQuality == Init /\ [][NextQuality]_vars

\* ------------------------------------------------------------------ claims
\* C1: on every exit path of a voice endpoint that writes the upload to a
\* temp file (register_voice only when no background task is scheduled), the
\* temp upload file the handler created no longer exists when it returns or
\* raises.
C1_UploadRemovedOnEveryExit ==
    \A r \in Req :
        (req[r].pc = "done"
         /\ (req[r].h \in {"extract", "compare", "verify", "analyze", "login"}
             \/ (req[r].h = "register" /\ task[r].st = "none")))
        => req[r].left = {}

\* C2: when two gallery writers of one user interleave (a write of one lands
\* between the read and the write of a store_multiple_embeddings run), the
\* gallery stored once both have finished contains every embedding each of
\* them wrote.
C2_NoLostUpdate ==
    LET Quiet == \A r \in Req : /\ req[r].pc \in {"idle", "done"}
                                /\ task[r].st \in {"none", "done"}
        WrittenBy(w) == IF w.w = "seed" THEN {req[w.q].emb} ELSE task[w.q].wrote
    IN Quiet => \A r \in Req : \A w \in task[r].overlap :
                    (task[r].wrote \cup WrittenBy(w)) \subseteq Range(db.voice_embeddings)

\* C3: a successful register_voice keeps every embedding that was stored in
\* voice_embeddings before the call.
C3_EnrollmentExtendsGallery ==
    \A r \in Req :
        (req[r].pc = "done" /\ req[r].h = "register" /\ req[r].status = 200)
        => req[r].dropped = {}

\* C4: once register_voice has reported success, the stored voice_embeddings
\* is non-empty and contains that enrollment's seed embedding, in that state
\* and in every later one.
C4_SeedStaysStored ==
    \A r \in Req :
        (req[r].pc = "done" /\ req[r].h = "register" /\ req[r].status = 200)
        => (db.voice_embeddings # <<>> /\ req[r].emb \in Range(db.voice_embeddings))

\* C5: against a non-empty gallery, verify_voice reports the maximum of
\* compare_voices(input, e).similarity over the stored embeddings e and match
\* exactly when that maximum is >= the threshold; login_with_voice accepts
\* exactly in that case.
C5_BestOfGallery ==
    \A r \in Req :
        LET best == MaxOf({compare_voices(req[r].emb, db.voice_embeddings[i],
                                          threshold).similarity :
                              i \in DOMAIN db.voice_embeddings})
        IN (req[r].pc = "done" /\ req[r].lookup = "gallery")
           => /\ (req[r].h = "verify" /\ req[r].status = 200)
                 => /\ req[r].similarity = best
                    /\ req[r].match = (best >= threshold)
              /\ req[r].h = "login" => (req[r].token = (best >= threshold))

\* C6: verification of a user without stored gallery ends with the
\* no-enrollment error reaching the caller (404 from verify_voice, 400 from
\* login_with_voice) and never with a result whose match is false.
C6_NoEnrollmentReachesCaller ==
    \A r \in Req :
        (req[r].pc = "done" /\ req[r].h \in {"verify", "login"}
         /\ req[r].lookup = "empty" /\ db.voice_embeddings = <<>>)
        => /\ req[r].h = "verify" => req[r].status = 404
           /\ req[r].h = "login" => req[r].status = 400
           /\ ~(req[r].status = 200 /\ ~req[r].match)

\* C7: when the user has no stored gallery, verification decides the
\* no-enrollment failure before any embedding call: extract_embedding is
\* never invoked on the upload.
C7_NoEmbeddingCallWithoutGallery ==
    \A r \in Req :
        (req[r].pc = "done" /\ req[r].h \in {"verify", "login"}
         /\ db.voice_embeddings = <<>>)
        => ~req[r].extracted

\* C8: when the voice encoder cannot be obtained, every caller of
\* extract_embedding ends with 503 and has not conditioned the upload.
C8_EncoderUnavailableIs503 ==
    \A r \in Req :
        (req[r].pc = "done" /\ req[r].h \in {"verify", "register", "login", "analyze"}
         /\ req[r].noenc)
        => (req[r].status = 503 /\ ~req[r].conditioned)

\* C9: two requests in flight never read, overwrite or delete the same temp
\* audio file, also when both uploads carry the same filename.
C9_TempFilesPrivate ==
    \A r \in Req : ~req[r].foreign /\ ~task[r].foreign

\* C10: with background tasks, register_voice schedules
\* store_multiple_embeddings only after the seed embedding was stored
\* successfully and responds with the task still queued; when storing the
\* seed fails no task is scheduled and the caller gets an error.
C10_SeedThenSchedule ==
    /\ [](\A r \in Req :
            /\ task[r].st # "none" => req[r].seed = "ok"
            /\ (req[r].pc = "done" /\ req[r].seed = "fail")
               => (task[r].st = "none" /\ req[r].status >= 400))
    /\ [][\A r \in Req :
            (req[r].pc # "done" /\ req'[r].pc = "done" /\ req'[r].h = "register"
             /\ req'[r].bg /\ req'[r].status = 200)
            => (task[r].st = "none" /\ task'[r].st = "queued")]_vars

\* C10 witness: one enrollment answered 200 with its seed stored and its task
\* queued, another answered with an error because storing its seed failed.
C10_Witness ==
    \E r \in Req :
        /\ req[r].pc = "done" /\ req[r].bg /\ req[r].status = 200
        /\ req[r].seed = "ok" /\ task[r].st = "queued"
        /\ \E q \in Req : /\ req[q].pc = "done" /\ req[q].bg
                          /\ req[q].seed = "fail" /\ task[q].st = "none"

\* C11: in store_multiple_embeddings a variant that fails is skipped: once
\* one variant was tried both are tried, the pitch step keeps what the stretch
\* step appended, and a run in which both fail never writes the gallery and
\* returns True.
C11_VariantsIndependent ==
    /\ [](\A r \in Req :
            /\ (task[r].st \in {"read", "write", "finally", "done"}
                /\ task[r].tried # {})
               => task[r].tried = {"stretch", "pitch"}
            /\ task[r].st = "write" => task[r].embs # <<>>
            /\ (task[r].st \in {"finally", "done"} /\ task[r].tried # {}
                /\ task[r].embs = <<>>)
               => (task[r].ret = "True" /\ task[r].wrote = {}))
    /\ [][\A r \in Req :
            (task[r].st = "pitch" /\ task'[r].st # "pitch")
            => /\ Len(task'[r].embs) >= Len(task[r].embs)
               /\ SubSeq(task'[r].embs, 1, Len(task[r].embs)) = task[r].embs
               /\ db' = db]_vars

\* C11 witness: one run finished with the pitch embedding alone (the stretch
\* variant failed), another finished with the stretch embedding alone, in a
\* history where the encoder never failed.
C11_Witness ==
    \E r, q \in Req :
        /\ task[r].st = "done" /\ task[r].tried = {"stretch", "pitch"}
        /\ task[r].embs = <<Embed(task[r].y.clip, "pitch")>>
        /\ task[q].st = "done" /\ task[q].tried = {"stretch", "pitch"}
        /\ task[q].embs = <<Embed(task[q].y.clip, "stretch")>>

\* C12: whenever store_multiple_embeddings writes the gallery, the list it
\* writes is the gallery stored just before the write followed by the new
\* variant embeddings, whatever get_user_voice_data returned.
C12_WriteAppends ==
    \A r \in Req :
        (task[r].st \in {"finally", "done"} /\ task[r].wrote # {})
        => task[r].combined = task[r].prior \o task[r].embs

\* C13: on the verification paths an upload of 0 bytes or of more than 15 MB
\* is rejected before preprocess_audio or librosa.load is run on it.
C13_SizeRejectedBeforeDecoding ==
    \A r \in Req :
        (req[r].pc = "done" /\ req[r].h \in {"verify", "login"}
         /\ req[r].clip \in {"empty", "huge"})
        => (req[r].status # 200 /\ ~req[r].decoded /\ ~req[r].conditioned)

\* C14: for an upload that fails a validation or quality check of
\* extract_embedding (empty, over 15 MB, unloadable, shorter than 1 s), the
\* encoder is never obtained and embed_utterance is never invoked.
C14_RejectedBeforeEncoder ==
    \A r \in Req :
        (req[r].extracted /\ req[r].clip \in {"empty", "huge", "corrupt", "short"})
        => (~req[r].asked /\ ~req[r].embedded /\ req[r].emb = None)

\* C14 witness: extract_embedding has rejected a clip shorter than 1 s after
\* decoding it, and an unloadable one, without asking for the encoder.
C14_Witness ==
    \E r, q \in Req :
        /\ req[r].pc = "done" /\ req[r].clip = "short" /\ req[r].extracted
        /\ req[r].decoded /\ ~req[r].asked
        /\ req[q].pc = "done" /\ req[q].clip = "corrupt" /\ req[q].extracted
        /\ ~req[q].asked

\* C15: a clip shorter than 1 s is rejected with an outcome that names the
\* insufficient duration as the cause, to the caller of extract_embedding and
\* of the verification endpoints: not as corrupt audio, not as a generic
\* failure.
C15_TooShortIsReported ==
    \A r \in Req :
        (req[r].pc = "done" /\ req[r].extracted /\ req[r].clip = "short"
         /\ req[r].h \in {"extract", "verify", "login"})
        => (req[r].detail = "too_short" /\ req[r].err = "too_short")

\* C16: compare_voices with an all-zero, empty or None embedding as either
\* argument returns similarity 0.0 and match False, whatever the other
\* argument and the threshold are.
C16_DegenerateIsNoMatch ==
    \A r \in Req :
        (req[r].h = "score"
         /\ (req[r].emb \in {None, <<0, 0>>} \/ req[r].emb2 \in {None, <<0, 0>>}))
        => (req[r].similarity = 0 /\ ~req[r].match)

\* C16 witness: compare_voices was called with an all-zero first argument
\* under threshold 0, and with a None second argument.
C16_Witness ==
    \E r, q \in Req :
        /\ threshold = 0
        /\ req[r].h = "score" /\ req[r].emb = <<0, 0>> /\ req[r].emb2 = <<4, 0>>
        /\ req[q].h = "score" /\ req[q].emb = <<4, 0>> /\ req[q].emb2 = None

\* C17: every result of compare_voices for threshold t has a similarity in
\* [0, 1] and match = (similarity >= t), on the degenerate and error paths as
\* on the normal one, t = 0 included.
C17_MatchIffAtLeastThreshold ==
    \A r \in Req :
        req[r].h = "score"
        => /\ req[r].similarity >= 0 /\ req[r].similarity <= 100
           /\ req[r].match = (req[r].similarity >= threshold)

\* C18: for one input embedding, the best similarity verification computes
\* against a gallery is at least the one it computes against a
\* sub-collection of that gallery, and a match against the sub-collection
\* implies a match against the gallery.
C18_GalleryMonotone ==
    \A r, q \in Req :
        (/\ req[r].pc = "done" /\ req[q].pc = "done"
         /\ req[r].lookup = "gallery" /\ req[q].lookup = "gallery"
         /\ req[r].status \in {200, 401} /\ req[q].status \in {200, 401}
         /\ req[r].emb = req[q].emb
         /\ Range(req[r].against) \subseteq Range(req[q].against))
        => /\ req[q].similarity >= req[r].similarity
           /\ req[r].match => req[q].match

\* C18 witness: the same clip was verified against the seed-only gallery and
\* against the seed plus both variants, and the best similarity rose.
C18_Witness ==
    \E r, q \in Req :
        /\ req[r].pc = "done" /\ req[q].pc = "done"
        /\ req[r].lookup = "gallery" /\ req[q].lookup = "gallery"
        /\ req[r].emb = req[q].emb
        /\ Len(req[r].against) = 1 /\ Len(req[q].against) = 3
        /\ req[q].against[1] = req[r].against[1]
        /\ req[q].similarity > req[r].similarity

\* C19: with a working encoder, enrolling a valid clip through register_voice
\* or through /auth/register with a voice recording stores a gallery with at
\* least one embedding (unless the account already existed, or the blob
\* upload or the store failed), and a later verification of the same clip by
\* the same user that reaches the comparison matches with a similarity of at
\* least the threshold.
C19_EnrollThenVerify ==
    \A r \in Req :
        (/\ req[r].h \in {"register", "authreg"}
         /\ req[r].pc = "done"
         /\ req[r].clip \in {"x", "y"}
         /\ req[r].emb # None
         /\ req[r].err \notin {"exists", "upload_failed", "store_failed",
                               "create_failed"})
        => /\ db.voice_embeddings # <<>>
           /\ \A q \in Req :
                 (/\ q > r
                  /\ req[q].h \in {"verify", "login"}
                  /\ req[q].pc = "done"
                  /\ req[q].clip = req[r].clip
                  /\ req[q].lookup = "gallery")
                 => /\ req[q].status = 200
                    /\ req[q].match
                    /\ req[q].similarity >= VOICE_SIMILARITY_THRESHOLD

\* C20: when verify_voice or login_with_voice compared the input against a
\* non-empty gallery and every similarity is below the threshold, the caller
\* gets a normal result with match = false; nothing is raised.
C20_NoMatchIsReturned ==
    \A r \in Req :
        (/\ req[r].h \in {"verify", "login"}
         /\ req[r].pc = "done"
         /\ req[r].lookup = "gallery"
         /\ req[r].against # <<>>
         /\ \A i \in DOMAIN req[r].against :
               compare_voices(req[r].emb, req[r].against[i], threshold).similarity
                   < threshold)
        => /\ req[r].raised = 0
           /\ req[r].status = 200
           /\ ~req[r].match

\* C21: once every pipeline operation that was started has returned or raised
\* (endpoint calls and store_multiple_embeddings runs alike), nothing they
\* created is left: no upload temp file, no variant file, and none of the side
\* files preprocess_audio writes next to its input.
C21_NoArtifactLeft ==
    (/\ \E r \in Req : req[r].pc = "done"
     /\ \A r \in Req : ~Active(r))
    => /\ fs = <<>>
       /\ side = {}

\* C22: a temp file that is already gone when the handler removes it does not
\* change what the caller gets: a compare_voice_samples call whose two
\* embeddings were extracted without an exception, and a verify_voice call
\* that compared against the gallery, answer 200 with their result.
C22_CleanupNeverEscalates ==
    \A r \in Req :
        req[r].pc = "done"
        => /\ (/\ req[r].h = "compare"
               /\ req[r].path2 # NoPath
               /\ req[r].raised = 0)
              => req[r].status = 200
           /\ (/\ req[r].h = "verify"
               /\ req[r].lookup = "gallery")
              => req[r].status = 200

\* C23: a voice request cancelled at an await leaves none of the temporary
\* upload files its handler had created.
C23_CancelledRequestCleansUp ==
    \A r \in Req :
        (req[r].pc = "done" /\ req[r].err = "cancelled") => req[r].left = {}

\* C24: in every execution of the process VoiceEncoder() is constructed at
\* most once, whatever the interleaving of the loader thread and the
\* request-time calls of get_voice_encoder.
C24_EncoderBuiltOnce == loader.built <= 1

\* C26: get_voice_encoder never hands out an instance whose probe threw or is
\* still running: a caller gets None or an instance whose probe completed.
C26_OnlyProbedEncoderHanded ==
    \A r \in Req : req[r].handed \in {"na", "None", "good"}

\* C25: no all-zero embedding is ever in the stored gallery, and none takes
\* part in a similarity computation: a verification whose input or gallery
\* holds one gets similarity 0 and no match from compare_voices.
C25_NoDegenerateEmbeddingStored ==
    /\ \A i \in DOMAIN db.voice_embeddings : ~IsZero(db.voice_embeddings[i])
    /\ \A r \in Req :
          (/\ req[r].pc = "done"
           /\ req[r].lookup = "gallery"
           /\ req[r].emb # None
           /\ \/ IsZero(req[r].emb)
              \/ \A i \in DOMAIN req[r].against : IsZero(req[r].against[i]))
          => req[r].similarity = 0 /\ ~req[r].match

\* C27: whenever preprocess_audio returns True, the audio left at audio_path
\* is the silence-trimmed audio with a duration of at least 0.5 s or the
\* untrimmed pre-trim audio, also when no chunk is detected, when the trimmed
\* result is too short and when the silence detection raises.
C27_TrimKeepsUsableAudio ==
    \A r \in Req :
        (req[r].h = "preprocess" /\ req[r].pc = "done" /\ req[r].conditioned)
        => \/ req[r].audio.kind = "pretrim"
           \/ req[r].audio.kind = "trimmed" /\ req[r].audio.dur >= MinTrimmed

\* C28: the quality checks leave the audio unchanged: the samples that
\* extract_embedding and analyze_voice embed are those of the uploaded clip,
\* whatever its duration.
C28_QualityChecksDoNotMutate ==
    \A r \in Req :
        (/\ req[r].h \in {"extract", "analyze"}
         /\ req[r].pc = "done"
         /\ req[r].used # "")
        => req[r].used = req[r].clip

\* C29: login_with_voice creates an access token only if at least one
\* embedding stored for the claimed email has a similarity of at least the
\* threshold with the embedding of the upload; a login that ends any other
\* way (unknown user, no voice data, unprocessable audio, no match, internal
\* error) carries no token.
C29_TokenOnlyOnMatch ==
    \A r \in Req :
        (req[r].h = "login" /\ req[r].token)
        => /\ req[r].status = 200
           /\ req[r].emb # None
           /\ \E i \in DOMAIN req[r].against :
                 compare_voices(req[r].emb, req[r].against[i],
                                threshold).similarity >= threshold

C29_Witness ==
    \E r \in Req :
        /\ req[r].h = "login" /\ req[r].pc = "done"
        /\ req[r].token /\ req[r].lookup = "gallery"
        /\ req[r].against # <<>>

\* C30: the enrollment temp file of register_voice has one owner: once the
\* augmentation task is scheduled the file is left for it, so it exists as
\* long as the task has not started; when the request ends without a task
\* the handler has removed the file.
C30_TempFileHasOneOwner ==
    \A r \in Req :
        /\ task[r].st = "queued" => Exists(fs, task[r].path)
        /\ (req[r].h = "register" /\ req[r].pc = "done" /\ task[r].st = "none")
           => req[r].left = {}

====
